---- MODULE Spec2Model ----
(***************************************************************************)
(* A model of the dependency-injection examples of python_di_examples:     *)
(*   example_01/main_di.py  manual assembly of APIClient and Service       *)
(*   example_02/main.py     Container with a Singleton and a Factory        *)
(*                          provider, configuration, wiring and override    *)
(*   example_03/main.py     UserService over an injected api_client        *)
(*   example_03/test_main.py the mock client the tests inject               *)
(* One run of the model is one run of one of these programs: Init chooses  *)
(* the program and its environment, the actions are the program's steps.   *)
(* Python strings are sequences of one-character strings, Python objects   *)
(* are entries of heap (an object's identity is its index), and a heap     *)
(* entry is never removed, so heap also records every constructor call.    *)
(***************************************************************************)
EXTENDS Integers, Sequences, FiniteSets, TLC

\* ------------------------------------------------------------------ bounds
\* Longest value of the TIMEOUT environment variable that is tried.
MaxEnvLen == 2
\* Container operations (resolutions, overrides, releases) per run.
MaxOps == 7
\* Overrides of api_client active at the same time.
MaxOverrides == 2
\* get_user / is_user_active calls per run of the test scenario.
MaxCalls == 2
\* Longest text tried after the prefix of an endpoint given to HTTPAPIClient.get.
MaxSegLen == 2

\* ------------------------------------------------------- Python values
PyNone == [t |-> "None"]
PyStr(s) == [t |-> "str", s |-> s]
PyInt(n) == [t |-> "int", n |-> n]
\* A variable of os.environ that is not set.
Unset == [t |-> "unset"]
\* dependency_injector's UNDEFINED marker: no default was passed.
Undefined == [t |-> "undefined"]

\* The outcome of a call: a value, or the exception it raised.
Returns(v) == [exc |-> "", val |-> v]
Raises(e) == [exc |-> e]

NoErr == [type |-> "", site |-> ""]

Str_users == <<"/", "u", "s", "e", "r", "s", "/">>
Str_demo_key == <<"d", "e", "m", "o", "-", "k", "e", "y">>
Str_30 == <<"3", "0">>

DigitChars == <<"0", "1", "2", "3", "4", "5", "6", "7", "8", "9">>

IsDigit(c) == \E i \in 1..10 : DigitChars[i] = c

DigitVal(c) == (CHOOSE i \in 1..10 : DigitChars[i] = c) - 1

RECURSIVE DigitsVal(_, _)
DigitsVal(s, acc) ==
    IF s = <<>> THEN acc ELSE DigitsVal(Tail(s), acc * 10 + DigitVal(Head(s)))

\* The builtin int(): an int is returned as it is, None is a TypeError, a
\* string is an optional sign followed by decimal digits and anything else
\* is a ValueError.  (int() also strips white space and accepts single
\* underscores between digits; the strings tried here hold neither.)
int_wrong_AcceptsAnything(v) ==
    IF v.t = "int" THEN Returns(v)
    ELSE IF v.t # "str" THEN Returns(PyInt(0))
    ELSE LET signed == v.s # <<>> /\ Head(v.s) \in {"+", "-"}
             body == IF signed THEN Tail(v.s) ELSE v.s
             digits == SelectSeq(body, IsDigit)
         IN Returns(PyInt(DigitsVal(digits, 0)))

int(v) ==
    IF v.t = "int" THEN Returns(v)
    ELSE IF v.t # "str" THEN Raises("TypeError")
    ELSE LET signed == v.s # <<>> /\ Head(v.s) \in {"+", "-"}
             body == IF signed THEN Tail(v.s) ELSE v.s
             n == DigitsVal(body, 0)
         IN IF body = <<>> \/ \E i \in 1..Len(body) : ~IsDigit(body[i])
            THEN Raises("ValueError")
            ELSE Returns(PyInt(IF signed /\ Head(v.s) = "-" THEN 0 - n ELSE n))

\* os.getenv(name, default) / os.environ.get(name, default)
getenv(e, default) == IF e.t = "unset" THEN default ELSE e

\* ------------------------------------------------------------ variables
VARIABLES
    prog,        \* the program that runs: "ex01_before", "ex01_di", "ex02", "ex03_main",
                 \* or a test of example_03: "ex03_test" (mock client with a return
                 \* value), "ex03_raising" (mock client whose get raises),
                 \* "ex03_integration" (real client), "ex03_http" (the client alone)
    pc,          \* the program's position
    env,         \* os.environ: [API_KEY, TIMEOUT]
    api_key,     \* example_01/03: the evaluated api_key argument; example_02: config.api_key
    timeout,     \* example_01/03: the evaluated timeout argument; example_02: config.timeout
    wired,       \* example_02: container.wire() has run
    heap,        \* every object constructed so far, in order of construction
    instance,    \* example_02: the Singleton's cached instance (0: none yet)
    overridden,  \* example_02: the overriding objects of api_client, innermost last
    log,         \* example_02: resolutions made, [key, via, obj, top, snap]
    mainArgs,    \* the service argument of each call of main()
    nops,        \* example_02: container operations made
    getCalls,    \* example_03: the endpoints api_client.get was called with
    last,        \* example_03: the last UserService call and its outcome
    err          \* the exception that ended the program, or NoErr

vars == <<prog, pc, env, api_key, timeout, wired, heap, instance, overridden,
          log, mainArgs, nops, getCalls, last, err>>

\* ------------------------------------------------------------- objects
APIClientObj(k, t) == [cls |-> "APIClient", api_key |-> k, timeout |-> t]
ServiceObj(c) == [cls |-> "Service", api_client |-> c]
MockObj == [cls |-> "Mock"]

NumCls(h, cls) == Cardinality({i \in 1..Len(h) : h[i].cls = cls})

\* =========================================================== example_02
\* ConfigurationOption.from_env(name, default, required, as_): the variable's
\* value, else the default; with neither, an error when required and None
\* otherwise; the value is then converted by as_ and stored.
from_env_wrong_NotRequired(e, default, required, as_int) ==
    LET found == getenv(e, default)
        value == IF found = Undefined THEN PyNone ELSE found
    IN IF as_int THEN int(value) ELSE Returns(value)

from_env(e, default, required, as_int) ==
    LET found == getenv(e, default)
        value == IF found = Undefined THEN PyNone ELSE found
    IN IF found = Undefined /\ required THEN Raises("ValueError")
       ELSE IF as_int THEN int(value)
       ELSE Returns(value)

\* container.config.api_key.from_env('API_KEY', required=True)
Ex2ConfigApiKey ==
    /\ prog = "ex02" /\ pc = "config_api_key"
    /\ LET r == from_env(env.API_KEY, Undefined, TRUE, FALSE)
       IN IF r.exc # ""
          THEN /\ pc' = "error"
               /\ err' = [type |-> r.exc, site |-> "config.api_key.from_env"]
               /\ UNCHANGED api_key
          ELSE /\ pc' = "config_timeout"
               /\ api_key' = r.val
               /\ UNCHANGED err
    /\ UNCHANGED <<prog, env, timeout, wired, heap, instance, overridden, log,
                   mainArgs, nops, getCalls, last>>

\* container.config.timeout.from_env('TIMEOUT', as_=int, default=5)
Ex2ConfigTimeout ==
    /\ prog = "ex02" /\ pc = "config_timeout"
    /\ LET r == from_env(env.TIMEOUT, PyInt(5), FALSE, TRUE)
       IN IF r.exc # ""
          THEN /\ pc' = "error"
               /\ err' = [type |-> r.exc, site |-> "config.timeout.from_env"]
               /\ UNCHANGED timeout
          ELSE /\ pc' = "wire"
               /\ timeout' = r.val
               /\ UNCHANGED err
    /\ UNCHANGED <<prog, env, api_key, wired, heap, instance, overridden, log,
                   mainArgs, nops, getCalls, last>>

\* container.wire(modules=[__name__])
Ex2Wire_wrong_Eager ==
    /\ prog = "ex02" /\ pc = "wire"
    /\ wired' = TRUE
    /\ pc' = "run"
    /\ heap' = Append(heap, APIClientObj(api_key, timeout))
    /\ instance' = Len(heap) + 1
    /\ UNCHANGED <<prog, env, api_key, timeout, overridden, log, mainArgs, nops,
                   getCalls, last, err>>

Ex2Wire ==
    /\ prog = "ex02" /\ pc = "wire"
    /\ wired' = TRUE
    /\ pc' = "run"
    /\ UNCHANGED <<prog, env, api_key, timeout, heap, instance, overridden, log,
                   mainArgs, nops, getCalls, last, err>>

\* The innermost overriding object, 0 when api_client is not overridden.
Top(ovr) == IF ovr = <<>> THEN 0 ELSE ovr[Len(ovr)]

\* api_client = providers.Singleton(APIClient, api_key=config.api_key,
\* timeout=config.timeout), called: the innermost overriding object when
\* overridden; else the cached instance; else a new APIClient, which is cached.
api_client_wrong_NoCache(h, inst, ovr, k, t) ==
    IF ovr # <<>> THEN [obj |-> Top(ovr), heap |-> h, instance |-> inst]
    ELSE [obj |-> Len(h) + 1, heap |-> Append(h, APIClientObj(k, t)),
          instance |-> Len(h) + 1]

api_client_wrong_IgnoresOverride(h, inst, ovr, k, t) ==
    IF inst # 0 THEN [obj |-> inst, heap |-> h, instance |-> inst]
    ELSE [obj |-> Len(h) + 1, heap |-> Append(h, APIClientObj(k, t)),
          instance |-> Len(h) + 1]

api_client(h, inst, ovr, k, t) ==
    IF ovr # <<>> THEN [obj |-> Top(ovr), heap |-> h, instance |-> inst]
    ELSE IF inst # 0 THEN [obj |-> inst, heap |-> h, instance |-> inst]
    ELSE [obj |-> Len(h) + 1, heap |-> Append(h, APIClientObj(k, t)),
          instance |-> Len(h) + 1]

\* service = providers.Factory(Service, api_client=api_client), called: the
\* api_client provider is called for the argument and a new Service is built.
service_wrong_Cached(h, inst, ovr, k, t) ==
    LET a == api_client(h, inst, ovr, k, t)
        old == {i \in 1..Len(h) : h[i].cls = "Service"}
    IN IF old # {}
       THEN [obj |-> CHOOSE i \in old : \A j \in old : i >= j, heap |-> a.heap,
             instance |-> a.instance]
       ELSE [obj |-> Len(a.heap) + 1, heap |-> Append(a.heap, ServiceObj(a.obj)),
             instance |-> a.instance]

service_wrong_OwnClient(h, inst, ovr, k, t) ==
    LET a == api_client_wrong_NoCache(h, inst, ovr, k, t)
    IN [obj |-> Len(a.heap) + 1, heap |-> Append(a.heap, ServiceObj(a.obj)),
        instance |-> a.instance]

service(h, inst, ovr, k, t) ==
    LET a == api_client(h, inst, ovr, k, t)
    IN [obj |-> Len(a.heap) + 1, heap |-> Append(a.heap, ServiceObj(a.obj)),
        instance |-> a.instance]

\* One entry of log: the key resolved, the object returned, the innermost
\* override at the time of the call and the returned object as it then was.
LogEntry(key, via, r) ==
    [key |-> key, via |-> via, obj |-> r.obj, top |-> Top(overridden),
     snap |-> r.heap[r.obj]]

\* client = container.api_client()
Ex2ResolveApiClient ==
    /\ prog = "ex02" /\ pc = "run" /\ nops < MaxOps
    /\ LET r == api_client(heap, instance, overridden, api_key, timeout)
       IN /\ heap' = r.heap
          /\ instance' = r.instance
          /\ log' = Append(log, LogEntry("api_client", "call", r))
    /\ nops' = nops + 1
    /\ UNCHANGED <<prog, pc, env, api_key, timeout, wired, overridden, mainArgs,
                   getCalls, last, err>>

\* service = container.service()
Ex2ResolveService ==
    /\ prog = "ex02" /\ pc = "run" /\ nops < MaxOps
    /\ LET r == service(heap, instance, overridden, api_key, timeout)
       IN /\ heap' = r.heap
          /\ instance' = r.instance
          /\ log' = Append(log, LogEntry("service", "call", r))
    /\ nops' = nops + 1
    /\ UNCHANGED <<prog, pc, env, api_key, timeout, wired, overridden, mainArgs,
                   getCalls, last, err>>

\* main(): @inject resolves Provide[Container.service] through the wired
\* container and passes the result as the service argument.
Ex2Main ==
    /\ prog = "ex02" /\ pc = "run" /\ nops < MaxOps
    /\ wired
    /\ LET r == service(heap, instance, overridden, api_key, timeout)
       IN /\ heap' = r.heap
          /\ instance' = r.instance
          /\ log' = Append(log, LogEntry("service", "main", r))
          /\ mainArgs' = Append(mainArgs, r.obj)
    /\ nops' = nops + 1
    /\ UNCHANGED <<prog, pc, env, api_key, timeout, wired, overridden, getCalls,
                   last, err>>

\* container.api_client.override(mock.Mock()), entering the with block: a new
\* Mock becomes the innermost overriding object.
Ex2Override ==
    /\ prog = "ex02" /\ pc = "run" /\ nops < MaxOps
    /\ Len(overridden) < MaxOverrides
    /\ heap' = Append(heap, MockObj)
    /\ overridden' = Append(overridden, Len(heap) + 1)
    /\ nops' = nops + 1
    /\ UNCHANGED <<prog, pc, env, api_key, timeout, wired, instance, log, mainArgs,
                   getCalls, last, err>>

\* Leaving the with block: the innermost override is removed.
release_wrong_PopsOutermost(ovr, inst) ==
    [overridden |-> Tail(ovr), instance |-> inst]

release_wrong_ResetsSingleton(ovr, inst) ==
    [overridden |-> SubSeq(ovr, 1, Len(ovr) - 1), instance |-> 0]

release(ovr, inst) ==
    [overridden |-> SubSeq(ovr, 1, Len(ovr) - 1), instance |-> inst]

Ex2Release ==
    /\ prog = "ex02" /\ pc = "run" /\ nops < MaxOps
    /\ overridden # <<>>
    /\ LET r == release(overridden, instance)
       IN /\ overridden' = r.overridden
          /\ instance' = r.instance
    /\ nops' = nops + 1
    /\ UNCHANGED <<prog, pc, env, api_key, timeout, wired, heap, log, mainArgs,
                   getCalls, last, err>>

\* ======================================================== example_01/main_di
\* The arguments of APIClient(api_key=os.getenv('API_KEY'),
\* timeout=int(os.getenv('TIMEOUT'))) are evaluated before APIClient is called.
Ex1EvalArgs ==
    /\ prog = "ex01_di" /\ pc = "eval_args"
    /\ LET r == int(getenv(env.TIMEOUT, PyNone))
       IN IF r.exc # ""
          THEN /\ pc' = "error"
               /\ err' = [type |-> r.exc, site |-> "int(os.getenv('TIMEOUT'))"]
               /\ UNCHANGED <<api_key, timeout>>
          ELSE /\ pc' = "new_client"
               /\ api_key' = getenv(env.API_KEY, PyNone)
               /\ timeout' = r.val
               /\ UNCHANGED err
    /\ UNCHANGED <<prog, env, wired, heap, instance, overridden, log, mainArgs,
                   nops, getCalls, last>>

\* APIClient.__init__ stores both arguments as they are.
Ex1NewAPIClient ==
    /\ prog = "ex01_di" /\ pc = "new_client"
    /\ heap' = Append(heap, APIClientObj(api_key, timeout))
    /\ pc' = "new_service"
    /\ UNCHANGED <<prog, env, api_key, timeout, wired, instance, overridden, log,
                   mainArgs, nops, getCalls, last, err>>

\* Service.__init__ stores the client it is given.
Ex1NewService ==
    /\ prog = "ex01_di" /\ pc = "new_service"
    /\ heap' = Append(heap, ServiceObj(Len(heap)))
    /\ pc' = "main"
    /\ UNCHANGED <<prog, env, api_key, timeout, wired, instance, overridden, log,
                   mainArgs, nops, getCalls, last, err>>

\* main(service=...)
Ex1Main ==
    /\ prog = "ex01_di" /\ pc = "main"
    /\ mainArgs' = Append(mainArgs, Len(heap))
    /\ pc' = "done"
    /\ UNCHANGED <<prog, env, api_key, timeout, wired, heap, instance, overridden,
                   log, nops, getCalls, last, err>>

\* =========================================================== example_03
\* A dict over the keys the service reads: each key holds a value or is missing.
Missing == [has |-> FALSE]
Present(v) == [has |-> TRUE, v |-> v]
EmptyDict == [id |-> Missing, name |-> Missing, email |-> Missing, active |-> Missing]

\* not response
IsEmpty(d) == ~d.id.has /\ ~d.name.has /\ ~d.email.has /\ ~d.active.has

\* The builtin str() of an int, as an f-string formats it.
RECURSIVE NatStr(_)
NatStr(n) ==
    IF n < 10 THEN <<DigitChars[n + 1]>>
    ELSE NatStr(n \div 10) \o <<DigitChars[(n % 10) + 1]>>

str(n) == IF n < 0 THEN <<"-">> \o NatStr(0 - n) ELSE NatStr(n)

\* endpoint.startswith('/users/')
StartsWith(s, p) == Len(s) >= Len(p) /\ SubSeq(s, 1, Len(p)) = p

\* endpoint.split('/')[-1]: what follows the last '/'
LastSegment_wrong_SecondPiece(s) ==
    LET slashes == {i \in 1..Len(s) : s[i] = "/"}
        first == CHOOSE i \in slashes : \A j \in slashes : i <= j
        later == {i \in slashes : i > first}
        second == IF later = {} THEN Len(s) + 1
                  ELSE CHOOSE i \in later : \A j \in later : i <= j
    IN IF slashes = {} THEN s ELSE SubSeq(s, first + 1, second - 1)

RECURSIVE LastSegment(_)
LastSegment(s) ==
    IF s = <<>> \/ s[Len(s)] = "/" THEN <<>>
    ELSE LastSegment(SubSeq(s, 1, Len(s) - 1)) \o <<s[Len(s)]>>

HTTPAPIClientObj(k, t) == [cls |-> "HTTPAPIClient", api_key |-> k, timeout |-> t]
UserServiceObj(c) == [cls |-> "UserService", api_client |-> c]
\* The tests' mock_client with mock_client.get.return_value = rv
MockClientObj(rv) == [cls |-> "Mock", return_value |-> rv]
\* A mock client with mock_client.get.side_effect = the exception e
MockRaisingObj(e) == [cls |-> "Mock", side_effect |-> e]

\* HTTPAPIClient.get(endpoint)
HTTPAPIClient_get_wrong_Prefix(endpoint) ==
    IF StartsWith(endpoint, <<"/", "u", "s", "e", "r", "s">>)
    THEN LET r == int(PyStr(LastSegment(endpoint)))
         IN IF r.exc # "" THEN Raises(r.exc)
            ELSE Returns([id |-> Present(r.val.n),
                          name |-> Present(<<"U", "s", "e", "r", " ">> \o str(r.val.n)),
                          email |-> Present(<<"u", "s", "e", "r">> \o str(r.val.n)
                                            \o <<"@", "e", "x", "a", "m", "p", "l", "e",
                                                 ".", "c", "o", "m">>),
                          active |-> Present(TRUE)])
    ELSE Returns(EmptyDict)

HTTPAPIClient_get(endpoint) ==
    IF StartsWith(endpoint, Str_users)
    THEN LET r == int(PyStr(LastSegment(endpoint)))
         IN IF r.exc # "" THEN Raises(r.exc)
            ELSE Returns([id |-> Present(r.val.n),
                          name |-> Present(<<"U", "s", "e", "r", " ">> \o str(r.val.n)),
                          email |-> Present(<<"u", "s", "e", "r">> \o str(r.val.n)
                                            \o <<"@", "e", "x", "a", "m", "p", "l", "e",
                                                 ".", "c", "o", "m">>),
                          active |-> Present(TRUE)])
    ELSE Returns(EmptyDict)

\* self.api_client.get(endpoint) on the injected client
api_client_get(c, endpoint) ==
    IF c.cls = "Mock"
    THEN IF "side_effect" \in DOMAIN c THEN Raises(c.side_effect)
         ELSE Returns(c.return_value)
    ELSE HTTPAPIClient_get(endpoint)

\* User(id=..., name=..., email=..., active=...)
User(i, n, e, a) == [t |-> "User", id |-> i, name |-> n, email |-> e, active |-> a]

\* UserService.get_user(user_id): the outcome and the get calls made.
get_user_wrong_Endpoint(h, svc, user_id) ==
    LET endpoint == Str_users
        g == api_client_get(h[h[svc].api_client], endpoint)
    IN IF g.exc # "" THEN [exc |-> g.exc, calls |-> <<endpoint>>]
       ELSE IF IsEmpty(g.val) THEN [exc |-> "", val |-> PyNone, calls |-> <<endpoint>>]
       ELSE IF ~g.val.id.has \/ ~g.val.name.has \/ ~g.val.email.has
       THEN [exc |-> "KeyError", calls |-> <<endpoint>>]
       ELSE [exc |-> "",
             val |-> User(g.val.id.v, g.val.name.v, g.val.email.v,
                          IF g.val.active.has THEN g.val.active.v ELSE TRUE),
             calls |-> <<endpoint>>]

get_user_wrong_NoEmptyCheck(h, svc, user_id) ==
    LET endpoint == Str_users \o str(user_id)
        g == api_client_get(h[h[svc].api_client], endpoint)
    IN IF g.exc # "" THEN [exc |-> g.exc, calls |-> <<endpoint>>]
       ELSE IF ~g.val.id.has \/ ~g.val.name.has \/ ~g.val.email.has
       THEN [exc |-> "KeyError", calls |-> <<endpoint>>]
       ELSE [exc |-> "",
             val |-> User(g.val.id.v, g.val.name.v, g.val.email.v,
                          IF g.val.active.has THEN g.val.active.v ELSE TRUE),
             calls |-> <<endpoint>>]

get_user_wrong_DefaultFalse(h, svc, user_id) ==
    LET endpoint == Str_users \o str(user_id)
        g == api_client_get(h[h[svc].api_client], endpoint)
    IN IF g.exc # "" THEN [exc |-> g.exc, calls |-> <<endpoint>>]
       ELSE IF IsEmpty(g.val) THEN [exc |-> "", val |-> PyNone, calls |-> <<endpoint>>]
       ELSE IF ~g.val.id.has \/ ~g.val.name.has \/ ~g.val.email.has
       THEN [exc |-> "KeyError", calls |-> <<endpoint>>]
       ELSE [exc |-> "",
             val |-> User(g.val.id.v, g.val.name.v, g.val.email.v,
                          IF g.val.active.has THEN g.val.active.v ELSE FALSE),
             calls |-> <<endpoint>>]

get_user_wrong_DefaultsAll(h, svc, user_id) ==
    LET endpoint == Str_users \o str(user_id)
        g == api_client_get(h[h[svc].api_client], endpoint)
    IN IF g.exc # "" THEN [exc |-> g.exc, calls |-> <<endpoint>>]
       ELSE IF IsEmpty(g.val) THEN [exc |-> "", val |-> PyNone, calls |-> <<endpoint>>]
       ELSE [exc |-> "",
             val |-> User(IF g.val.id.has THEN g.val.id.v ELSE 0,
                          IF g.val.name.has THEN g.val.name.v ELSE <<>>,
                          IF g.val.email.has THEN g.val.email.v ELSE <<>>,
                          IF g.val.active.has THEN g.val.active.v ELSE TRUE),
             calls |-> <<endpoint>>]

get_user_wrong_SwallowsError(h, svc, user_id) ==
    LET endpoint == Str_users \o str(user_id)
        g == api_client_get(h[h[svc].api_client], endpoint)
    IN IF g.exc # "" THEN [exc |-> "", val |-> PyNone, calls |-> <<endpoint>>]
       ELSE IF IsEmpty(g.val) THEN [exc |-> "", val |-> PyNone, calls |-> <<endpoint>>]
       ELSE IF ~g.val.id.has \/ ~g.val.name.has \/ ~g.val.email.has
       THEN [exc |-> "KeyError", calls |-> <<endpoint>>]
       ELSE [exc |-> "",
             val |-> User(g.val.id.v, g.val.name.v, g.val.email.v,
                          IF g.val.active.has THEN g.val.active.v ELSE TRUE),
             calls |-> <<endpoint>>]

get_user(h, svc, user_id) ==
    LET endpoint == Str_users \o str(user_id)
        g == api_client_get(h[h[svc].api_client], endpoint)
    IN IF g.exc # "" THEN [exc |-> g.exc, calls |-> <<endpoint>>]
       ELSE IF IsEmpty(g.val) THEN [exc |-> "", val |-> PyNone, calls |-> <<endpoint>>]
       ELSE IF ~g.val.id.has \/ ~g.val.name.has \/ ~g.val.email.has
       THEN [exc |-> "KeyError", calls |-> <<endpoint>>]
       ELSE [exc |-> "",
             val |-> User(g.val.id.v, g.val.name.v, g.val.email.v,
                          IF g.val.active.has THEN g.val.active.v ELSE TRUE),
             calls |-> <<endpoint>>]

\* UserService.is_user_active(user_id): user is not None and user.active
is_user_active_wrong_IgnoresActive(h, svc, user_id) ==
    LET u == get_user(h, svc, user_id)
    IN IF u.exc # "" THEN u
       ELSE [exc |-> "", val |-> u.val # PyNone, calls |-> u.calls]

is_user_active_wrong_CallsTwice(h, svc, user_id) ==
    LET u == get_user(h, svc, user_id)
        w == get_user(h, svc, user_id)
    IN IF u.exc # "" THEN u
       ELSE IF w.exc # "" THEN [exc |-> w.exc, calls |-> u.calls \o w.calls]
       ELSE [exc |-> "", val |-> IF u.val = PyNone THEN FALSE ELSE w.val.active,
             calls |-> u.calls \o w.calls]

is_user_active(h, svc, user_id) ==
    LET u == get_user(h, svc, user_id)
    IN IF u.exc # "" THEN u
       ELSE [exc |-> "", val |-> IF u.val = PyNone THEN FALSE ELSE u.val.active,
             calls |-> u.calls]

\* The user ids the tests and main() pass, and two more.
UserIds == {-1, 0, 1, 42, 999}

\* The UserService under test or built by main(): the last object constructed.
TheService == Len(heap)

\* The test scenarios that call a UserService.
ServiceTests == {"ex03_test", "ex03_raising", "ex03_integration"}

\* user = service.get_user(user_id) in a test
Ex3GetUser(user_id) ==
    /\ prog \in ServiceTests /\ pc = "test" /\ nops < MaxCalls
    /\ LET r == get_user(heap, TheService, user_id)
       IN /\ last' = [op |-> "get_user", user_id |-> user_id, out |-> r]
          /\ getCalls' = getCalls \o r.calls
    /\ nops' = nops + 1
    /\ UNCHANGED <<prog, pc, env, api_key, timeout, wired, heap, instance,
                   overridden, log, mainArgs, err>>

\* service.is_user_active(user_id) in a test
Ex3IsUserActive(user_id) ==
    /\ prog \in ServiceTests /\ pc = "test" /\ nops < MaxCalls
    /\ LET r == is_user_active(heap, TheService, user_id)
       IN /\ last' = [op |-> "is_user_active", user_id |-> user_id, out |-> r]
          /\ getCalls' = getCalls \o r.calls
    /\ nops' = nops + 1
    /\ UNCHANGED <<prog, pc, env, api_key, timeout, wired, heap, instance,
                   overridden, log, mainArgs, err>>

\* response = client.get(endpoint) on an HTTPAPIClient, as in TestHTTPAPIClient
Ex3HttpGet(endpoint) ==
    /\ prog = "ex03_http" /\ pc = "test"
    /\ last' = [op |-> "get", endpoint |-> endpoint, out |-> HTTPAPIClient_get(endpoint)]
    /\ getCalls' = Append(getCalls, endpoint)
    /\ pc' = "done"
    /\ UNCHANGED <<prog, env, api_key, timeout, wired, heap, instance, overridden,
                   log, mainArgs, nops, err>>

\* main(): api_key = os.getenv('API_KEY', 'demo-key');
\* timeout = int(os.getenv('TIMEOUT', '30'))
Ex3EvalConfig ==
    /\ prog = "ex03_main" /\ pc = "eval_config"
    /\ LET r == int(getenv(env.TIMEOUT, PyStr(Str_30)))
       IN IF r.exc # ""
          THEN /\ pc' = "error"
               /\ err' = [type |-> r.exc, site |-> "int(os.getenv('TIMEOUT', '30'))"]
               /\ UNCHANGED <<api_key, timeout>>
          ELSE /\ pc' = "new_client"
               /\ api_key' = getenv(env.API_KEY, PyStr(Str_demo_key))
               /\ timeout' = r.val
               /\ UNCHANGED err
    /\ UNCHANGED <<prog, env, wired, heap, instance, overridden, log, mainArgs,
                   nops, getCalls, last>>

\* client = HTTPAPIClient(api_key=api_key, timeout=timeout)
Ex3NewClient ==
    /\ prog = "ex03_main" /\ pc = "new_client"
    /\ heap' = Append(heap, HTTPAPIClientObj(api_key, timeout))
    /\ pc' = "new_service"
    /\ UNCHANGED <<prog, env, api_key, timeout, wired, instance, overridden, log,
                   mainArgs, nops, getCalls, last, err>>

\* service = UserService(api_client=client)
Ex3NewService ==
    /\ prog = "ex03_main" /\ pc = "new_service"
    /\ heap' = Append(heap, UserServiceObj(Len(heap)))
    /\ pc' = "get_user"
    /\ UNCHANGED <<prog, env, api_key, timeout, wired, instance, overridden, log,
                   mainArgs, nops, getCalls, last, err>>

\* user = service.get_user(42), then the result is printed
Ex3MainGetUser ==
    /\ prog = "ex03_main" /\ pc = "get_user"
    /\ LET r == get_user(heap, TheService, 42)
       IN /\ last' = [op |-> "get_user", user_id |-> 42, out |-> r]
          /\ getCalls' = getCalls \o r.calls
          /\ IF r.exc # ""
             THEN /\ pc' = "error"
                  /\ err' = [type |-> r.exc, site |-> "service.get_user(42)"]
             ELSE /\ pc' = "done"
                  /\ UNCHANGED err
    /\ UNCHANGED <<prog, env, api_key, timeout, wired, heap, instance, overridden,
                   log, mainArgs, nops>>

\* ==================================================== example_01/main_before
\* APIClient(): __init__ reads API_KEY and int(os.getenv('TIMEOUT')) itself; the
\* object is handed to the caller only if __init__ returns.
ExBNewAPIClient ==
    /\ prog = "ex01_before" /\ pc = "new_client"
    /\ LET r == int(getenv(env.TIMEOUT, PyNone))
       IN IF r.exc # ""
          THEN /\ pc' = "error"
               /\ err' = [type |-> r.exc, site |-> "APIClient.__init__"]
               /\ UNCHANGED <<api_key, timeout, heap>>
          ELSE /\ pc' = "new_service"
               /\ api_key' = getenv(env.API_KEY, PyNone)
               /\ timeout' = r.val
               /\ heap' = Append(heap, APIClientObj(getenv(env.API_KEY, PyNone), r.val))
               /\ UNCHANGED err
    /\ UNCHANGED <<prog, env, wired, instance, overridden, log, mainArgs, nops,
                   getCalls, last>>

\* Service(): __init__ stores the APIClient it has just created.
ExBNewService ==
    /\ prog = "ex01_before" /\ pc = "new_service"
    /\ heap' = Append(heap, ServiceObj(Len(heap)))
    /\ pc' = "main"
    /\ UNCHANGED <<prog, env, api_key, timeout, wired, instance, overridden, log,
                   mainArgs, nops, getCalls, last, err>>

\* main(): service = Service(); print(type(service))
ExBMain ==
    /\ prog = "ex01_before" /\ pc = "main"
    /\ mainArgs' = Append(mainArgs, Len(heap))
    /\ pc' = "done"
    /\ UNCHANGED <<prog, env, api_key, timeout, wired, heap, instance, overridden,
                   log, nops, getCalls, last, err>>

\* ------------------------------------------------ the initial states
EnvChars == {"7", "-", "x"}

EnvStrs == UNION {[1..n -> EnvChars] : n \in 0..MaxEnvLen}

EnvApiKeys == {Unset, PyStr(<<"k">>)}

EnvTimeouts == {Unset} \cup {PyStr(s) : s \in EnvStrs}

\* The records the tests make the mock return, with every key present or not.
Responses ==
    [id : {Missing, Present(1), Present(2)},
     name : {Missing, Present(<<"A">>)},
     email : {Missing, Present(<<"a", "@", "x">>)},
     active : {Missing, Present(TRUE), Present(FALSE)}]

\* The exceptions a mock client's get is made to raise.
SideEffects == {"ConnectionError", "TimeoutError"}

\* The endpoints given to HTTPAPIClient.get: a prefix and a short text.
EndpointChars == {"0", "4", "-", "a", "/"}

EndpointPrefixes ==
    {Str_users, <<"/", "u", "s", "e", "r", "s">>, <<"/", "p", "/">>, <<>>}

Endpoints ==
    {p \o t : p \in EndpointPrefixes,
              t \in UNION {[1..n -> EndpointChars] : n \in 0..MaxSegLen}}

NoCall == [op |-> "none"]

\* A script starts with nothing constructed and its environment given.
InitScript(p, start) ==
    /\ prog = p
    /\ pc = start
    /\ env \in [API_KEY : EnvApiKeys, TIMEOUT : EnvTimeouts]
    /\ api_key = PyNone /\ timeout = PyNone
    /\ wired = FALSE
    /\ heap = <<>> /\ instance = 0 /\ overridden = <<>>
    /\ log = <<>> /\ mainArgs = <<>> /\ nops = 0
    /\ getCalls = <<>> /\ last = NoCall
    /\ err = NoErr

\* A test of TestUserService starts with its fixtures built: the mock client,
\* its return value set, and the UserService it is injected into.
InitTest ==
    /\ prog = "ex03_test"
    /\ pc = "test"
    /\ env = [API_KEY |-> Unset, TIMEOUT |-> Unset]
    /\ api_key = PyNone /\ timeout = PyNone
    /\ wired = FALSE
    /\ \E rv \in Responses : heap = <<MockClientObj(rv), UserServiceObj(1)>>
    /\ instance = 0 /\ overridden = <<>>
    /\ log = <<>> /\ mainArgs = <<>> /\ nops = 0
    /\ getCalls = <<>> /\ last = NoCall
    /\ err = NoErr

\* A test whose objects h are already built.
InitFixture(p, h) ==
    /\ prog = p
    /\ pc = "test"
    /\ env = [API_KEY |-> Unset, TIMEOUT |-> Unset]
    /\ api_key = PyNone /\ timeout = PyNone
    /\ wired = FALSE
    /\ heap = h
    /\ instance = 0 /\ overridden = <<>>
    /\ log = <<>> /\ mainArgs = <<>> /\ nops = 0
    /\ getCalls = <<>> /\ last = NoCall
    /\ err = NoErr

\* A UserService over a mock client whose get raises.
InitRaising ==
    \E e \in SideEffects :
        InitFixture("ex03_raising", <<MockRaisingObj(e), UserServiceObj(1)>>)

\* TestIntegration: client = HTTPAPIClient(api_key='integration-key',
\* timeout=30); service = UserService(api_client=client)
InitIntegration ==
    InitFixture("ex03_integration",
                <<HTTPAPIClientObj(PyStr(<<"i", "-", "k", "e", "y">>), PyInt(30)),
                  UserServiceObj(1)>>)

\* TestHTTPAPIClient: client = HTTPAPIClient(api_key='key', timeout=10)
InitHttp ==
    InitFixture("ex03_http", <<HTTPAPIClientObj(PyStr(<<"k", "e", "y">>), PyInt(10))>>)

Init ==
    \/ InitScript("ex01_before", "new_client")
    \/ InitScript("ex01_di", "eval_args")
    \/ InitScript("ex02", "config_api_key")
    \/ InitScript("ex03_main", "eval_config")
    \/ InitTest
    \/ InitRaising
    \/ InitIntegration
    \/ InitHttp

Next ==
    \/ Ex1EvalArgs
    \/ Ex1NewAPIClient
    \/ Ex1NewService
    \/ Ex1Main
    \/ Ex2ConfigApiKey
    \/ Ex2ConfigTimeout
    \/ Ex2Wire
    \/ Ex2ResolveApiClient
    \/ Ex2ResolveService
    \/ Ex2Main
    \/ Ex2Override
    \/ Ex2Release
    \/ \E u \in UserIds : Ex3GetUser(u)
    \/ \E u \in UserIds : Ex3IsUserActive(u)
    \/ \E e \in Endpoints : Ex3HttpGet(e)
    \/ Ex3EvalConfig
    \/ Ex3NewClient
    \/ Ex3NewService
    \/ Ex3MainGetUser
    \/ ExBNewAPIClient
    \/ ExBNewService
    \/ ExBMain

Spec == Init /\ [][Next]_vars

\* =============================================================== claims
\* The api_client a resolution yielded: the object itself for the api_client
\* key, the injected argument for the service key.
ClientOf(e) == IF e.key = "api_client" THEN e.obj ELSE e.snap.api_client

Unoverridden(e) == e.top = 0

\* C1: api_client is a Singleton: all resolutions of api_client made while no
\* override is active return one and the same APIClient instance, and over any
\* sequence of resolutions of api_client and service (overrides included) the
\* APIClient constructor runs at most once.
C1_SingletonIdentity ==
    prog = "ex02" =>
        /\ \A i, j \in 1..Len(log) :
               (/\ log[i].key = "api_client" /\ Unoverridden(log[i])
                /\ log[j].key = "api_client" /\ Unoverridden(log[j]))
               => /\ log[i].obj = log[j].obj
                  /\ heap[log[i].obj].cls = "APIClient"
        /\ NumCls(heap, "APIClient") <= 1

\* Two consecutive api_client resolutions and a service resolution, none
\* overridden, have happened.
C1_Witness ==
    /\ prog = "ex02"
    /\ \E i \in 1..Len(log) - 2 :
           /\ log[i].key = "api_client" /\ Unoverridden(log[i])
           /\ log[i + 1].key = "api_client" /\ Unoverridden(log[i + 1])
           /\ log[i + 2].key = "service" /\ Unoverridden(log[i + 2])
    /\ NumCls(heap, "APIClient") = 1

\* C2: service is a Factory: any two resolutions of service return distinct
\* Service instances, also when both were given the same api_client.
C2_TransientDistinct ==
    prog = "ex02" =>
        \A i, j \in 1..Len(log) :
            (i < j /\ log[i].key = "service" /\ log[j].key = "service")
            => /\ log[i].obj # log[j].obj
               /\ heap[log[i].obj].cls = "Service"
               /\ heap[log[j].obj].cls = "Service"

\* Two consecutive service resolutions were given the identical api_client.
C2_Witness ==
    /\ prog = "ex02"
    /\ \E i \in 1..Len(log) - 1 :
           /\ log[i].key = "service" /\ log[i + 1].key = "service"
           /\ log[i].snap.api_client = log[i + 1].snap.api_client

\* The service arguments main() received are the objects resolved for it.
MainEntries == SelectSeq(log, LAMBDA e : e.via = "main")

\* C3: while an override of api_client is active, every resolution of
\* api_client, direct or through service (main's injected argument included),
\* yields the overriding object X (the innermost one when overrides nest); with
\* no override active, resolution behaves as before any override: it yields the
\* one singleton APIClient, the same as in every earlier unoverridden
\* resolution, and every service resolution builds a fresh Service.
C3_OverrideShadowing ==
    prog = "ex02" =>
        /\ \A i \in 1..Len(log) :
               LET e == log[i]
               IN /\ ~Unoverridden(e) =>
                        /\ ClientOf(e) = e.top
                        /\ heap[e.top].cls = "Mock"
                  /\ Unoverridden(e) =>
                        /\ heap[ClientOf(e)].cls = "APIClient"
                        /\ \A j \in 1..(i - 1) :
                               Unoverridden(log[j]) => ClientOf(log[j]) = ClientOf(e)
                  /\ e.key = "service" =>
                        /\ heap[e.obj].cls = "Service"
                        /\ heap[e.obj].api_client = ClientOf(e)
                        /\ \A j \in 1..(i - 1) : log[j].obj # e.obj
        /\ Len(mainArgs) = Len(MainEntries)
        /\ \A k \in 1..Len(mainArgs) : mainArgs[k] = MainEntries[k].obj

\* api_client was resolved, then main() ran inside an override and was given
\* the mock, then the override was released and api_client resolved again.
C3_Witness ==
    /\ prog = "ex02"
    /\ overridden = <<>>
    /\ \E i, j, k \in 1..Len(log) :
           /\ i < j /\ j < k
           /\ log[i].key = "api_client" /\ Unoverridden(log[i])
           /\ log[j].via = "main" /\ ~Unoverridden(log[j])
           /\ heap[mainArgs[Len(mainArgs)]].api_client = log[j].top
           /\ log[k].key = "api_client" /\ Unoverridden(log[k])
           /\ log[k].obj = log[i].obj

\* The mock client's configured return value in the test scenario.
ReturnValue == heap[1].return_value

HasAll(d) == d.id.has /\ d.name.has /\ d.email.has /\ d.active.has

\* '/users/<user_id>': the prefix, then text that reads back as user_id.
IsUsersEndpoint(e, user_id) ==
    /\ StartsWith(e, Str_users)
    /\ int(PyStr(SubSeq(e, Len(Str_users) + 1, Len(e)))) = Returns(PyInt(user_id))
    /\ user_id = 1 => e = <<"/", "u", "s", "e", "r", "s", "/", "1">>
    /\ user_id = 999 => e = <<"/", "u", "s", "e", "r", "s", "/", "9", "9", "9">>
    /\ user_id = -1 => e = <<"/", "u", "s", "e", "r", "s", "/", "-", "1">>

\* C4: when the mock returns a record with id, name, email and active,
\* get_user(user_id) calls get exactly once, with '/users/<user_id>', and
\* returns a User with exactly these four values (active False stays False).
C4_GetUserFound ==
    (prog = "ex03_test" /\ last.op = "get_user" /\ HasAll(ReturnValue)) =>
        /\ last.out.exc = ""
        /\ last.out.val = User(ReturnValue.id.v, ReturnValue.name.v,
                               ReturnValue.email.v, ReturnValue.active.v)
        /\ Len(last.out.calls) = 1
        /\ IsUsersEndpoint(last.out.calls[1], last.user_id)
        /\ getCalls[Len(getCalls)] = last.out.calls[1]

\* get_user(1) returned an inactive user from a complete record.
C4_Witness ==
    /\ prog = "ex03_test" /\ last.op = "get_user" /\ last.user_id = 1
    /\ HasAll(ReturnValue) /\ ReturnValue.active.v = FALSE
    /\ last.out.exc = "" /\ last.out.val.active = FALSE
    /\ getCalls = <<Str_users \o <<"1">>>>

\* C5: when the mock returns the empty record, get_user returns None without
\* raising after exactly one get call with '/users/<user_id>', and
\* is_user_active returns False.
C5_EmptyResult ==
    (prog = "ex03_test" /\ last.op # "none" /\ IsEmpty(ReturnValue)) =>
        /\ last.out.exc = ""
        /\ Len(last.out.calls) = 1
        /\ IsUsersEndpoint(last.out.calls[1], last.user_id)
        /\ last.op = "get_user" => last.out.val = PyNone
        /\ last.op = "is_user_active" => last.out.val = FALSE

\* get_user(999) and then is_user_active(999) ran against the empty record.
C5_Witness ==
    /\ prog = "ex03_test" /\ IsEmpty(ReturnValue)
    /\ last.op = "is_user_active" /\ last.user_id = 999
    /\ last.out.val = FALSE
    /\ Len(getCalls) = 2 /\ getCalls[1] = getCalls[2]

LacksOnlyActive(d) == d.id.has /\ d.name.has /\ d.email.has /\ ~d.active.has

\* C6: when the record has id, name and email but no active, get_user returns
\* a User with active = True and is_user_active returns True.
C6_ActiveDefault ==
    (prog = "ex03_test" /\ last.op # "none" /\ LacksOnlyActive(ReturnValue)) =>
        /\ last.out.exc = ""
        /\ last.op = "get_user" =>
               /\ last.out.val # PyNone
               /\ last.out.val.active = TRUE
               /\ last.out.val.id = ReturnValue.id.v
               /\ last.out.val.name = ReturnValue.name.v
               /\ last.out.val.email = ReturnValue.email.v
        /\ last.op = "is_user_active" => last.out.val = TRUE

\* get_user ran against a record without active.
C6_Witness ==
    /\ prog = "ex03_test" /\ LacksOnlyActive(ReturnValue)
    /\ last.op = "get_user" /\ last.out.exc = "" /\ last.out.val.active = TRUE

\* C7: is_user_active(user_id) returns True exactly when get_user(user_id) on
\* the same response returns a User whose active is True; for an inactive user
\* and for a nonexistent one it returns False.
C7_IsUserActive ==
    (prog = "ex03_test" /\ last.op = "is_user_active") =>
        LET g == get_user(heap, TheService, last.user_id)
        IN /\ (last.out.exc = "" /\ last.out.val = TRUE)
                  <=> (g.exc = "" /\ g.val # PyNone /\ g.val.active = TRUE)
           /\ (g.exc = "" /\ (g.val = PyNone \/ g.val.active = FALSE))
                  => (last.out.exc = "" /\ last.out.val = FALSE)
           /\ (HasAll(ReturnValue) /\ ReturnValue.active.v = FALSE)
                  => (last.out.exc = "" /\ last.out.val = FALSE)
           /\ (HasAll(ReturnValue) /\ ReturnValue.active.v = TRUE)
                  => (last.out.exc = "" /\ last.out.val = TRUE)
           /\ IsEmpty(ReturnValue) => (last.out.exc = "" /\ last.out.val = FALSE)

\* is_user_active returned False for an inactive user that get_user returns.
C7_Witness ==
    /\ prog = "ex03_test" /\ last.op = "is_user_active"
    /\ HasAll(ReturnValue) /\ ReturnValue.active.v = FALSE
    /\ last.out.exc = "" /\ last.out.val = FALSE

\* C8: when API_KEY is not set, example_02's configuration fails at
\* config.api_key.from_env with a configuration error (a ValueError) and the
\* run gets no further: nothing is wired, main is not called, nothing is
\* resolved and no APIClient or Service is constructed.
C8_MissingApiKey ==
    (prog = "ex02" /\ env.API_KEY = Unset) =>
        /\ pc \in {"config_api_key", "error"}
        /\ pc = "error" =>
               err = [type |-> "ValueError", site |-> "config.api_key.from_env"]
        /\ ~wired
        /\ mainArgs = <<>> /\ log = <<>> /\ nops = 0
        /\ heap = <<>> /\ instance = 0
        /\ api_key = PyNone

\* The run has failed at the api_key step.
C8_Witness ==
    /\ prog = "ex02" /\ env.API_KEY = Unset
    /\ pc = "error" /\ err.site = "config.api_key.from_env"

\* A string that reads as a decimal integer: an optional sign, then digits.
LooksNumeric(s) ==
    LET body == IF s # <<>> /\ s[1] \in {"+", "-"} THEN SubSeq(s, 2, Len(s)) ELSE s
    IN /\ body # <<>>
       /\ \A i \in 1..Len(body) :
              body[i] \in {"0", "1", "2", "3", "4", "5", "6", "7", "8", "9"}

NonNumericTimeout == env.TIMEOUT.t = "str" /\ ~LooksNumeric(env.TIMEOUT.s)

\* C9: with TIMEOUT set to a non-numeric string, each of example_02,
\* example_01/main_di and example_03's main ends in a ValueError raised where
\* the configuration is read (from_env in example_02, the int(os.getenv(...))
\* call in the other two): the run never gets past that step and no client
\* or service object is ever constructed.  (In example_02 the run ends one
\* step earlier, also in a ValueError, when API_KEY is missing as well.)
C9_NonNumericTimeout ==
    (prog \in {"ex01_di", "ex02", "ex03_main"} /\ NonNumericTimeout) =>
        /\ pc \in {"eval_args", "eval_config", "config_api_key", "config_timeout",
                   "error"}
        /\ heap = <<>> /\ instance = 0
        /\ mainArgs = <<>> /\ log = <<>> /\ getCalls = <<>>
        /\ pc = "error" =>
               /\ err.type = "ValueError"
               /\ err.site = (CASE prog = "ex01_di" -> "int(os.getenv('TIMEOUT'))"
                                [] prog = "ex03_main" -> "int(os.getenv('TIMEOUT', '30'))"
                                [] prog = "ex02" /\ env.API_KEY = Unset ->
                                       "config.api_key.from_env"
                                [] OTHER -> "config.timeout.from_env")

\* example_02 has failed converting a non-numeric TIMEOUT while configuring.
C9_Witness ==
    /\ prog = "ex02" /\ NonNumericTimeout /\ env.TIMEOUT.s = <<"7", "x">>
    /\ pc = "error"
    /\ err = [type |-> "ValueError", site |-> "config.timeout.from_env"]
    /\ heap = <<>>

\* The value of decimal text (an optional sign, then digits), by place value.
DigitOf(c) ==
    CASE c = "0" -> 0 [] c = "1" -> 1 [] c = "2" -> 2 [] c = "3" -> 3 [] c = "4" -> 4
      [] c = "5" -> 5 [] c = "6" -> 6 [] c = "7" -> 7 [] c = "8" -> 8 [] c = "9" -> 9

RECURSIVE Pow10(_)
Pow10(k) == IF k = 0 THEN 1 ELSE 10 * Pow10(k - 1)

RECURSIVE PlaceSum(_, _)
PlaceSum(b, i) ==
    IF i > Len(b) THEN 0 ELSE DigitOf(b[i]) * Pow10(Len(b) - i) + PlaceSum(b, i + 1)

DecimalOf(s) ==
    LET signed == s[1] \in {"+", "-"}
        body == IF signed THEN SubSeq(s, 2, Len(s)) ELSE s
    IN IF s[1] = "-" THEN 0 - PlaceSum(body, 1) ELSE PlaceSum(body, 1)

\* The text Python prints for the integer n: no '+', no leading zeros.
IsTextOf(t, n) ==
    /\ LooksNumeric(t)
    /\ DecimalOf(t) = n
    /\ t[1] # "+"
    /\ (t[1] = "-") <=> (n < 0)
    /\ LET body == IF t[1] = "-" THEN SubSeq(t, 2, Len(t)) ELSE t
       IN Len(body) > 1 => body[1] # "0"

Str_User == <<"U", "s", "e", "r", " ">>
Str_user == <<"u", "s", "e", "r">>
Str_at_example_com == <<"@", "e", "x", "a", "m", "p", "l", "e", ".", "c", "o", "m">>

\* The record {id: n, name: 'User n', email: 'user<n>@example.com', active: True}
IsUserRecord(d, n) ==
    /\ d.id = Present(n)
    /\ d.name.has /\ StartsWith(d.name.v, Str_User)
    /\ IsTextOf(SubSeq(d.name.v, Len(Str_User) + 1, Len(d.name.v)), n)
    /\ d.email.has /\ StartsWith(d.email.v, Str_user)
    /\ Len(d.email.v) > Len(Str_user) + Len(Str_at_example_com)
    /\ SubSeq(d.email.v, Len(d.email.v) - Len(Str_at_example_com) + 1, Len(d.email.v))
           = Str_at_example_com
    /\ IsTextOf(SubSeq(d.email.v, Len(Str_user) + 1,
                       Len(d.email.v) - Len(Str_at_example_com)), n)
    /\ d.active = Present(TRUE)

\* What follows '/users/' in an endpoint.
AfterUsers(e) == SubSeq(e, Len(Str_users) + 1, Len(e))

\* C11: HTTPAPIClient.get(endpoint) returns, for '/users/<n>' with n a decimal
\* integer, the record {id: n, name: 'User n', email: 'user<n>@example.com',
\* active: True}, and the empty record for every endpoint that does not start
\* with '/users/'.
C11_HttpGet ==
    (prog = "ex03_http" /\ last.op = "get") =>
        LET e == last.endpoint
        IN /\ (StartsWith(e, Str_users) /\ LooksNumeric(AfterUsers(e))) =>
                  /\ last.out.exc = ""
                  /\ IsUserRecord(last.out.val, DecimalOf(AfterUsers(e)))
           /\ e = Str_users \o <<"4", "0">> =>
                  last.out = Returns([id |-> Present(40),
                                      name |-> Present(Str_User \o <<"4", "0">>),
                                      email |-> Present(Str_user \o <<"4", "0">>
                                                        \o Str_at_example_com),
                                      active |-> Present(TRUE)])
           /\ ~StartsWith(e, Str_users) => last.out = Returns(EmptyDict)

\* get('/users/04') returned the record of user 4.
C11_Witness ==
    /\ prog = "ex03_http" /\ last.op = "get"
    /\ last.endpoint = Str_users \o <<"0", "4">>
    /\ last.out.exc = ""
    /\ last.out.val.id = Present(4)
    /\ last.out.val.name = Present(Str_User \o <<"4">>)

\* C12: with a real HTTPAPIClient injected, get_user(user_id) returns a User
\* (not None) with id = user_id and name = 'User <user_id>', and
\* is_user_active(user_id) returns True, for every user_id tried (negative,
\* zero, one and several digits).
C12_RealClient ==
    (prog = "ex03_integration" /\ last.op # "none") =>
        /\ last.out.exc = ""
        /\ last.op = "get_user" =>
               /\ last.out.val # PyNone
               /\ last.out.val.id = last.user_id
               /\ StartsWith(last.out.val.name, Str_User)
               /\ IsTextOf(SubSeq(last.out.val.name, Len(Str_User) + 1,
                                  Len(last.out.val.name)), last.user_id)
               /\ last.out.val.active = TRUE
               /\ last.user_id = 42 => last.out.val.name = Str_User \o <<"4", "2">>
        /\ last.op = "is_user_active" => last.out.val = TRUE

\* get_user(-1) and then is_user_active(999) ran against the real client.
C12_Witness ==
    /\ prog = "ex03_integration"
    /\ getCalls = <<Str_users \o <<"-", "1">>, Str_users \o <<"9", "9", "9">>>>
    /\ last.op = "is_user_active" /\ last.out.val = TRUE

HasRequired(d) == d.id.has /\ d.name.has /\ d.email.has

C14_NeverRaises ==
    (prog = "ex03_http" /\ last.op = "get") => last.out.exc = ""

ServiceEntries == {i \in 1..Len(log) : log[i].key = "service"}

\* C15: every resolution of service constructs a new Service, none is kept or
\* reused, and the argument comes from the api_client singleton: the Services
\* resolved while no override is active are pairwise distinct and all hold the
\* one cached APIClient.
C15_ServiceTransient ==
    prog = "ex02" =>
        /\ NumCls(heap, "Service") = Cardinality(ServiceEntries)
        /\ instance # 0 => heap[instance].cls = "APIClient"
        /\ \A i \in ServiceEntries :
               /\ heap[log[i].obj] = log[i].snap
               /\ Unoverridden(log[i]) =>
                      /\ log[i].snap.api_client = instance
                      /\ heap[instance].cls = "APIClient"
        /\ \A i, j \in ServiceEntries :
               (i < j /\ Unoverridden(log[i]) /\ Unoverridden(log[j])) =>
                   /\ log[i].obj # log[j].obj
                   /\ log[i].snap.api_client = log[j].snap.api_client

\* api_client was resolved and then three Services, with no override.
C15_Witness ==
    /\ prog = "ex02" /\ Len(log) = 4
    /\ log[1].key = "api_client"
    /\ \A i \in 2..4 : log[i].key = "service" /\ log[i].snap.api_client = log[1].obj
    /\ \A i \in 1..4 : Unoverridden(log[i])
    /\ Cardinality({log[i].obj : i \in 2..4}) = 3

\* C16: overrides of api_client nest and unwind last-in first-out.  Every step
\* that adds an override puts it innermost and leaves the singleton alone;
\* every release removes exactly the innermost override and changes nothing
\* else; and every resolution yields the innermost override of the moment, so
\* Y while X and Y are active, X once Y is released, and once X is released
\* too the singleton as it was cached before (or a first APIClient when none
\* was), an overridden resolution never touching the cache.
C16_NestedOverrides ==
    [][prog = "ex02" =>
          /\ Len(overridden') > Len(overridden) =>
                 /\ overridden' = Append(overridden, Len(heap) + 1)
                 /\ heap' = Append(heap, MockObj)
                 /\ instance' = instance /\ log' = log
          /\ Len(overridden') < Len(overridden) =>
                 /\ overridden' = SubSeq(overridden, 1, Len(overridden) - 1)
                 /\ instance' = instance /\ heap' = heap /\ log' = log
          /\ Len(log') > Len(log) =>
                 LET e == log'[Len(log')]
                 IN /\ overridden' = overridden
                    /\ e.top = Top(overridden)
                    /\ overridden # <<>> =>
                           /\ ClientOf(e) = overridden[Len(overridden)]
                           /\ instance' = instance
                           /\ NumCls(heap', "APIClient") = NumCls(heap, "APIClient")
                    /\ (overridden = <<>> /\ instance # 0) =>
                           /\ ClientOf(e) = instance
                           /\ instance' = instance
                    /\ (overridden = <<>> /\ instance = 0) =>
                           /\ ClientOf(e) = instance'
                           /\ instance' = Len(heap) + 1
                           /\ heap'[instance'].cls = "APIClient"
      ]_vars

\* X and then Y overrode api_client; a resolution yielded Y, Y was released, a
\* resolution yielded X, X was released, and a resolution yielded an APIClient.
C16_Witness ==
    /\ prog = "ex02" /\ overridden = <<>> /\ Len(log) = 3
    /\ log[1].top > log[2].top /\ log[2].top > 0
    /\ ClientOf(log[1]) = log[1].top
    /\ ClientOf(log[2]) = log[2].top
    /\ log[3].top = 0
    /\ heap[ClientOf(log[3])].cls = "APIClient"
    /\ heap[log[1].top].cls = "Mock" /\ heap[log[2].top].cls = "Mock"

UnoverriddenEntries == {i \in 1..Len(log) : Unoverridden(log[i])}

\* C17: the api_client singleton is created lazily.  Until a resolution of
\* api_client or service is made with no override active (so through
\* configuration, wiring and any overridden resolutions) no APIClient exists
\* and nothing is cached; the first such resolution constructs the APIClient
\* from the configured api_key and timeout and caches it; every later
\* unoverridden resolution yields that same object, and no second one is built.
C17_LazySingleton ==
    prog = "ex02" =>
        /\ pc # "run" => heap = <<>> /\ log = <<>>
        /\ UnoverriddenEntries = {} =>
               /\ instance = 0
               /\ NumCls(heap, "APIClient") = 0
        /\ UnoverriddenEntries # {} =>
               LET f == CHOOSE i \in UnoverriddenEntries :
                            \A j \in UnoverriddenEntries : i <= j
               IN /\ instance = ClientOf(log[f])
                  /\ instance = IF log[f].key = "service" THEN log[f].obj - 1
                                ELSE log[f].obj
                  /\ \A j \in 1..(f - 1) : log[j].obj < instance
                  /\ heap[instance] = APIClientObj(api_key, timeout)
                  /\ NumCls(heap, "APIClient") = 1
                  /\ \A i \in UnoverriddenEntries : ClientOf(log[i]) = instance

\* main() ran inside an override before anything else was resolved, and after
\* the release a Service and then api_client were resolved.
C17_Witness ==
    /\ prog = "ex02" /\ Len(log) = 3 /\ overridden = <<>>
    /\ ~Unoverridden(log[1]) /\ log[1].via = "main"
    /\ Unoverridden(log[2]) /\ log[2].key = "service"
    /\ Unoverridden(log[3]) /\ log[3].key = "api_client"
    /\ log[3].obj = instance /\ log[2].snap.api_client = instance
    /\ instance > log[1].obj

\* C18: an error raised by api_client.get comes out of get_user and of
\* is_user_active unchanged: the call raises that same error, yields no value
\* (no None, no False), and has made the one get call only (no retry).
C18_ErrorsPropagate ==
    (prog = "ex03_raising" /\ last.op # "none") =>
        /\ last.out.exc = heap[heap[TheService].api_client].side_effect
        /\ "val" \notin DOMAIN last.out
        /\ Len(last.out.calls) = 1
        /\ Len(getCalls) = nops

\* get raised ConnectionError under is_user_active, after an earlier call.
C18_Witness ==
    /\ prog = "ex03_raising" /\ nops = 2
    /\ heap[1].side_effect = "ConnectionError"
    /\ last.op = "is_user_active"
    /\ last.out.exc = "ConnectionError"

\* C19: constructing the APIClient of main_before with TIMEOUT unset or not
\* numeric raises TypeError, and no APIClient or Service comes into existence.
C19_TypeErrorOnBadTimeout ==
    (/\ prog = "ex01_before"
     /\ pc # "new_client"
     /\ env.TIMEOUT = Unset \/ NonNumericTimeout) =>
        /\ pc = "error"
        /\ err.type = "TypeError"
        /\ heap = <<>>

\* C20: a call of get_user or is_user_active leaves the service and the client
\* it was given as they were, and adds exactly one get call, whose endpoint is
\* '/users/' followed by the decimal text of that call's own user_id.
C20_ServiceStateless ==
    [][(prog \in ServiceTests /\ nops' # nops) =>
          /\ heap' = heap
          /\ heap[TheService] = UserServiceObj(1)
          /\ Len(getCalls') = Len(getCalls) + 1
          /\ SubSeq(getCalls', 1, Len(getCalls)) = getCalls
          /\ last'.out.calls = <<getCalls'[Len(getCalls')]>>
          /\ IsUsersEndpoint(getCalls'[Len(getCalls')], last'.user_id)]_vars

\* get_user(42) and then is_user_active(-1) ran on the same service.
C20_Witness ==
    /\ prog = "ex03_test" /\ nops = 2 /\ Len(getCalls) = 2
    /\ IsUsersEndpoint(getCalls[1], 42)
    /\ last.op = "is_user_active" /\ last.user_id = -1
    /\ IsUsersEndpoint(getCalls[2], -1)
    /\ heap[TheService] = UserServiceObj(1)

\* C21: a Service keeps the api_client it was constructed with, by reference,
\* whatever is overridden or released afterwards.  A Service resolved while X
\* was the innermost override holds X, also once X has been released; a
\* Service resolved while nothing was overridden holds the real APIClient (the
\* singleton), also while an override is active.
C21_ServiceKeepsClient ==
    prog = "ex02" =>
        \A i \in ServiceEntries :
            LET held == heap[log[i].obj].api_client
            IN /\ ~Unoverridden(log[i]) =>
                      /\ held = log[i].top
                      /\ heap[held] = MockObj
               /\ Unoverridden(log[i]) =>
                      /\ held = instance
                      /\ heap[held] = APIClientObj(api_key, timeout)

\* A Service was resolved with no override, another while X overrode
\* api_client; X was released and Y now overrides: the first still holds the
\* APIClient and the second still holds X.
C21_Witness ==
    /\ prog = "ex02" /\ Len(log) = 2 /\ Len(overridden) = 1
    /\ log[1].key = "service" /\ Unoverridden(log[1])
    /\ log[2].key = "service" /\ ~Unoverridden(log[2])
    /\ log[2].top # overridden[1]
    /\ heap[log[1].obj].api_client = instance
    /\ heap[instance].cls = "APIClient"
    /\ heap[log[2].obj].api_client = log[2].top
    /\ heap[log[2].top].cls = "Mock"
====
